---- MODULE Spec2Model ----
(***************************************************************************)
(* A model of personal-performance-metrics: one run of the program, from   *)
(* kingpin.Parse to the return of run(), in the three revisions of main    *)
(* that the repository holds:                                              *)
(*   "v1"      src/main.go               (no preview table, no CLI flags)  *)
(*   "legacy"  src/README.md:146-333     (preview table, 1 decimal)        *)
(*   "current" src/unnamed/part_000      (dimensions, confirmation gate)   *)
(*                                                                         *)
(* In the run, values are fixed-point numbers in thousandths (1250 is      *)
(* 1.25).  The rounding expression itself is also modelled on float64, the *)
(* type the program computes it in, in the section "float64" below.  The   *)
(* timestamp of a datum (time.Now) is left out: nothing below reads it.    *)
(* pterm's table Render writes to the standard output and returns a nil    *)
(* error, so printTable's error return is not a branch of the model.       *)
(***************************************************************************)
EXTENDS Integers, Sequences, FiniteSets, TLC

\* ------------------------------------------------------------------ bounds
\* the number of distinct keys a data or configuration document may hold
MaxKeys == 2
\* the longest dimension list of a metric mapping
MaxDims == 2
\* the number of lines the input stream supplies before it must decide
MaxReads == 2
\* the observed float64 values: this many successors of the first one
MaxOffset == 9

VARIABLES
    version,      \* which revision of main runs
    loopvarPerIteration, \* Go >= 1.22: a range variable is fresh per iteration
    cli,          \* the kingpin flags, after kingpin.Parse
    configFile,   \* config.yml as yaml.Unmarshal reads it, or NoFile
    dataFile,     \* data.yml as yaml.Unmarshal reads it, or NoFile
    stdin,        \* the lines os.Stdin may supply
    pc,           \* the position of the run
    config,       \* run's configInput
    data,         \* run's dataInput
    dataRead,     \* loadData has been called
    clientCreated,\* cloudwatch.NewFromConfig has been called
    tableData,    \* the rows printTable rendered (header first), <<>> before
    rangeLeft,    \* publishMetrics' range over data: the keys not yet visited
    metricData,   \* publishMetrics' metricData
    calls,        \* every PutMetricData call made: its input and its error
    stdout,       \* the messages printed, in order
    reads,        \* the number of ReadString calls on os.Stdin
    response,     \* confirm's response, NoLine outside a read
    readErr,      \* the error of confirm's last ReadString, NoError if none
    gate,         \* the confirmation gate
    err,          \* what run returns: NoError, or the error
    runState,     \* the state of the pipeline
    observed,     \* a float64 value of the data, for the rounding alone
    rounded       \* the results of rounding observed, then of rounding that

vars == <<version, loopvarPerIteration, cli, configFile, dataFile, stdin, pc,
          config,
          data, dataRead, clientCreated, tableData, rangeLeft, metricData,
          calls, stdout, reads, response, readErr, gate, err, runState,
          observed, rounded>>

\* ------------------------------------------------------------ input domains
Versions == {"v1", "legacy", "current"}

KeyNames == <<"steps", "calories", "sleep", "mood", "focus">>
Keys == {KeyNames[i] : i \in 1..MaxKeys}

\* the remote name a configuration gives each key
RemoteNames ==
    [k \in {KeyNames[i] : i \in 1..Len(KeyNames)} |->
        CASE k = "steps" -> "DailySteps"
          [] k = "calories" -> "CaloriesBurned"
          [] k = "sleep" -> "HoursSlept"
          [] k = "mood" -> "Mood"
          [] OTHER -> "Focus"]

\* the dimensions a configuration may list, in this order; the second repeats
\* the name of the first
DimensionSource ==
    << [Name |-> "Goal", Value |-> "Fitness"],
       [Name |-> "Goal", Value |-> "Health"],
       [Name |-> "Area", Value |-> "Work"],
       [Name |-> "Area", Value |-> "Home"] >>
DimensionLists == {SubSeq(DimensionSource, 1, n) : n \in 0..MaxDims}

\* observed values, in thousandths: 0.125, -1.25 (halves at 2 and 1 decimals)
FloatValues == {125, -1250}
\* main.go reads integers
IntValues == {0, 2000}

NoFile == [missing |-> TRUE]
NoLine == <<"no line">>
NoError == "nil"

\* --------------------------------------------------------------- documents
\* metricMappings of a configuration document: any subset of the keys, each
\* with its remote name and one of the dimension lists
MappingTables(dimLists) ==
    UNION { { [k \in S |-> [Name |-> RemoteNames[k], Dimensions |-> d[k]]] :
                d \in [S -> dimLists] } : S \in SUBSET Keys }

\* region and profile as config.yml and the flags/environment give them
CfgSettings ==
    { [Region |-> r, Profile |-> p] :
        r \in {"", "ap-southeast-2"}, p \in {"", "my-aws-profile"} }
CliSettings ==
    { [region |-> r, profile |-> p] :
        r \in {"", "us-east-1"}, p \in {"", "default"} }

\* main.go and the README revision map a key to a name only: a mapping with
\* no dimensions
ConfigFiles(v, settings, dimLists) ==
    { [Region |-> s.Region, Profile |-> s.Profile, SkipPublish |-> skip,
       MetricNamespace |-> "Personal/Performance", MetricMappings |-> m] :
        s \in settings, skip \in BOOLEAN,
        m \in MappingTables(IF v = "current" THEN dimLists ELSE {<<>>}) }

DataFiles(v, values) ==
    UNION { [S -> IF v = "v1" THEN IntValues ELSE values] :
            S \in SUBSET Keys }

\* main.go declares no flag; the README revision has no --non-interactive
CliFlags(v, settings) ==
    IF v = "v1"
    THEN { [region |-> "", profile |-> "", skipPublish |-> FALSE,
            noninteractive |-> FALSE] }
    ELSE { [region |-> s.region, profile |-> s.profile, skipPublish |-> skip,
            noninteractive |-> ni] :
            s \in settings, skip \in BOOLEAN,
            ni \in IF v = "current" THEN BOOLEAN ELSE {FALSE} }

EmptyConfig ==
    [Region |-> "", Profile |-> "", SkipPublish |-> FALSE,
     MetricNamespace |-> "", MetricMappings |-> <<>>]

\* the lines a user may type (without the newline that ends them)
Lines ==
    { <<"Y">>, <<" ", "y", "e", "s", " ">>, <<"n">>, <<"N", "O">>,
      <<"m", "a", "y", "b", "e">>, <<>>, <<"\t", "N", "o", "\r">>,
      <<"y", " ", "e", "s">>, <<"y", "e", "s", "!">> }

\* a run: the revision, the build, the flags, the two documents and the
\* lines the input stream may supply
InitOf(cfgSettings, cliSettings, dimLists, values, lines) ==
    /\ version \in Versions
    /\ loopvarPerIteration \in IF version = "current" THEN BOOLEAN ELSE {TRUE}
    /\ cli \in CliFlags(version, cliSettings)
    /\ configFile \in {NoFile} \cup ConfigFiles(version, cfgSettings, dimLists)
    /\ dataFile \in {NoFile} \cup DataFiles(version, values)
    /\ stdin = lines
    /\ pc = "loadConfig"
    /\ config = EmptyConfig
    /\ data = <<>>
    /\ dataRead = FALSE
    /\ clientCreated = FALSE
    /\ tableData = <<>>
    /\ rangeLeft = {}
    /\ metricData = <<>>
    /\ calls = <<>>
    /\ stdout = <<>>
    /\ reads = 0
    /\ response = NoLine
    /\ readErr = NoError
    /\ gate = "NotEntered"
    /\ err = NoError
    /\ runState = "Start"
    /\ observed = [neg |-> FALSE, m |-> <<>>, e |-> 0]
    /\ rounded = <<>>

\* every combination of settings and flags and every line, over documents
\* that differ in the keys they hold
Init == InitOf(CfgSettings, CliSettings, {<<>>}, {125}, Lines)

\* every document, under settings that resolve and a user who answers at once
InitData ==
    InitOf({[Region |-> "", Profile |-> "my-aws-profile"]},
           {[region |-> "us-east-1", profile |-> ""]},
           DimensionLists, FloatValues, {<<"y">>, <<"n">>})

\* ------------------------------------------------------------------- run()
\* run returns e: log.Fatal in main
Return(e, state) ==
    /\ err' = e
    /\ runState' = state
    /\ pc' = "done"

LoadConfig ==
    /\ pc = "loadConfig"
    /\ IF configFile = NoFile
       THEN /\ Return("config.yml: read error", "Aborted")
            /\ UNCHANGED config
       ELSE /\ config' = configFile
            /\ pc' = IF version = "v1" THEN "loadData" ELSE "resolve"
            /\ UNCHANGED <<err, runState>>
    /\ UNCHANGED <<observed, rounded, version, loopvarPerIteration, cli, configFile, dataFile, stdin,
                   data, dataRead, clientCreated, tableData, rangeLeft,
                   metricData, calls, stdout, reads, readErr, response, gate>>

\* a fallback that never leaves a setting empty
FallbackDefault(configured, flag) ==
    IF configured # "" THEN configured ELSE IF flag # "" THEN flag ELSE "default"

\* a flag --skip-publish that replaces the configured value
EffectiveSkipPublishFlagWins(configured, flag) == flag

\* the fallback of an empty configuration field to the flag
Fallback(configured, flag) == IF configured = "" THEN flag ELSE configured

\* the flag --skip-publish turns the configured value on, never off
EffectiveSkipPublish(configured, flag) == IF flag THEN TRUE ELSE configured

ResolveSettings ==
    /\ pc = "resolve"
    /\ LET region == Fallback(config.Region, cli.region)
           profile == Fallback(config.Profile, cli.profile)
       IN  IF region = ""
           THEN /\ Return("AWS_REGION environment variable not set", "Aborted")
                /\ UNCHANGED config
           ELSE IF profile = ""
           THEN /\ Return("AWS_PROFILE environment variable not set", "Aborted")
                /\ config' = [config EXCEPT !.Region = region]
           ELSE /\ config' = [config EXCEPT
                                !.Region = region, !.Profile = profile,
                                !.SkipPublish =
                                    EffectiveSkipPublish(@, cli.skipPublish)]
                /\ pc' = "loadData"
                /\ UNCHANGED <<err, runState>>
    /\ UNCHANGED <<observed, rounded, version, loopvarPerIteration, cli, configFile, dataFile, stdin,
                   data, dataRead, clientCreated, tableData, rangeLeft,
                   metricData, calls, stdout, reads, readErr, response, gate>>

LoadData ==
    /\ pc = "loadData"
    /\ dataRead' = TRUE
    /\ IF dataFile = NoFile
       THEN /\ Return("data.yml: read error", "Aborted")
            /\ UNCHANGED data
       ELSE /\ data' = dataFile
            /\ pc' = "loadAWS"
            /\ runState' = "Loaded"
            /\ UNCHANGED err
    /\ UNCHANGED <<observed, rounded, version, loopvarPerIteration, cli, configFile, dataFile, stdin,
                   config, clientCreated, tableData, rangeLeft,
                   metricData, calls, stdout, reads, readErr, response, gate>>

\* a publishMetrics that does not call printTable
PublishMetricsEntryNoPreview == "checkSkip"

\* where publishMetrics starts
PublishMetricsEntry == "printTable"

\* config.LoadDefaultConfig, which may fail, then cloudwatch.NewFromConfig
\* and the call of publishMetrics
LoadAWSConfig ==
    /\ pc = "loadAWS"
    /\ \E ok \in BOOLEAN :
        IF ok
        THEN /\ clientCreated' = TRUE
             /\ pc' = PublishMetricsEntry
             /\ UNCHANGED <<err, runState, stdout>>
        ELSE /\ stdout' = Append(stdout, "Error creating AWS config:")
             /\ Return("LoadDefaultConfig error", "Aborted")
             /\ UNCHANGED clientCreated
    /\ UNCHANGED <<observed, rounded, version, loopvarPerIteration, cli, configFile, dataFile, stdin,
                   config, data, dataRead, tableData, rangeLeft,
                   metricData, calls, reads, readErr, response, gate>>

\* ------------------------------------------------------------ pure helpers
Abs(x) == IF x < 0 THEN -x ELSE x

\* math.Round(x*100)/100 and math.Round(x*10)/10 on thousandths: math.Round
\* rounds half away from zero
RoundTo(x, unit) ==
    LET q == (Abs(x) + unit \div 2) \div unit
    IN  IF x < 0 THEN -(q * unit) ELSE q * unit

\* the value a datum carries for an observed value
MetricValue(value) ==
    CASE version = "current" -> RoundTo(value, 10)
      [] version = "legacy" -> RoundTo(value, 100)
      [] OTHER -> value

\* a table that kept the one decimal of the README revision
TableValueOneDecimal(val) == RoundTo(val, 100)

\* the value printTable shows for an observed value
TableValue(val) ==
    CASE version = "current" -> RoundTo(val, 10)
      [] version = "legacy" -> RoundTo(val, 100)
      [] OTHER -> val

\* fmt.Sprint of a float64 (shortest decimal form), on thousandths
Sprint(x) ==
    LET whole == Abs(x) \div 1000
        d1 == (Abs(x) \div 100) % 10
        d2 == (Abs(x) \div 10) % 10
        d3 == Abs(x) % 10
        frac == IF d3 # 0 THEN ToString(d1) \o ToString(d2) \o ToString(d3)
                ELSE IF d2 # 0 THEN ToString(d1) \o ToString(d2)
                ELSE IF d1 # 0 THEN ToString(d1)
                ELSE ""
    IN  (IF x < 0 THEN "-" ELSE "") \o ToString(whole)
        \o (IF frac = "" THEN "" ELSE "." \o frac)

\* the orders in which a range over a map with key set S may visit it
RangeOrders(S) ==
    { o \in [1..Cardinality(S) -> S] :
        \A i, j \in 1..Cardinality(S) : i # j => o[i] # o[j] }

\* config.MetricMappings[key]: the zero value for a key that is not mapped
Lookup(key) ==
    IF key \in DOMAIN config.MetricMappings
    THEN config.MetricMappings[key]
    ELSE [Name |-> "", Dimensions |-> <<>>]

\* a lookup that stored the zero value under the keys it did not find
MappingsAfterIndexInserting(keys) ==
    [k \in DOMAIN config.MetricMappings \cup keys |-> Lookup(k)]

\* the mapping table after config.MetricMappings[key] was read for keys: the
\* index expression of a map does not add the key it does not find
MappingsAfterIndex(keys) == config.MetricMappings

\* the ok of the lookup not tested
MappedAlways(key) == TRUE

\* the comma-ok form: whether the key has a mapping
Mapped(key) == key \in DOMAIN config.MetricMappings

\* printTable's dimensions column: fmt.Sprintf("%s=%s ", v.Name, v.Value) of
\* each dimension, appended in order
RECURSIVE DimensionSummary(_)
DimensionSummary(dims) ==
    IF dims = <<>> THEN ""
    ELSE DimensionSummary(SubSeq(dims, 1, Len(dims) - 1))
         \o dims[Len(dims)].Name \o "=" \o dims[Len(dims)].Value \o " "

\* ------------------------------------------------------------- printTable
TableHeader ==
    CASE version = "current" -> <<"Metric name", "Value", "Dimensions">>
      [] version = "legacy" -> <<"Metric name", "Value">>
      [] OTHER -> <<"key", "value">>

TableRow(key) ==
    CASE version = "current" ->
            << Lookup(key).Name, Sprint(TableValue(data[key])),
               DimensionSummary(Lookup(key).Dimensions) >>
      [] version = "legacy" ->
            << Lookup(key).Name, Sprint(TableValue(data[key])) >>
      [] OTHER -> << key, Sprint(TableValue(data[key])) >>

\* fmt prints a map in the order of its keys
SortedKeyNames == <<"calories", "focus", "mood", "sleep", "steps">>
SortedOrder(S) ==
    CHOOSE o \in RangeOrders(S) :
        \A i, j \in 1..Cardinality(S) :
            i < j => \E a, b \in 1..Len(SortedKeyNames) :
                        a < b /\ SortedKeyNames[a] = o[i]
                              /\ SortedKeyNames[b] = o[j]

PreviewMessage ==
    IF version = "v1" THEN "Metrics: %v" ELSE "Metrics to be published:"

\* printTable: one row per key of data, in the order of the range over the
\* map; main.go prints the data with Printf instead
PrintTable ==
    /\ pc = "printTable"
    /\ \E order \in IF version = "v1" THEN {SortedOrder(DOMAIN data)}
                    ELSE RangeOrders(DOMAIN data) :
        tableData' = <<TableHeader>>
                     \o [i \in 1..Len(order) |-> TableRow(order[i])]
    /\ stdout' = Append(stdout, PreviewMessage)
    /\ runState' = "Previewed"
    /\ pc' = "checkSkip"
    /\ config' = IF version = "v1" THEN config
                 ELSE [config EXCEPT
                         !.MetricMappings = MappingsAfterIndex(DOMAIN data)]
    /\ UNCHANGED <<observed, rounded, version, loopvarPerIteration, cli, configFile, dataFile, stdin,
                   data, dataRead, clientCreated, rangeLeft,
                   metricData, calls, reads, readErr, response, gate, err>>

\* ---------------------------------------------------------- publishMetrics
\* a publishMetrics that does not look at the setting
SkipPublishIgnored == FALSE

\* the test that guards every step after the preview
SkipPublish == config.SkipPublish

SkippedMessage ==
    IF version = "v1" THEN "Skipping."
    ELSE "You have elected to not publish these metrics, exiting..."

SuccessMessage == "Metrics published successfully!"

\* publishMetrics returns e to run; main.go's run prints the success message
\* whenever publishMetrics returned nil
ReturnFromPublish(e, state, out) ==
    /\ Return(e, state)
    /\ stdout' = IF version = "v1" /\ e = NoError
                 THEN Append(out, SuccessMessage)
                 ELSE out

CheckSkipPublish ==
    /\ pc = "checkSkip"
    /\ IF SkipPublish
       THEN /\ ReturnFromPublish(NoError, "SkippedByConfig",
                                 Append(stdout, SkippedMessage))
            /\ UNCHANGED rangeLeft
       ELSE /\ rangeLeft' = DOMAIN data
            /\ pc' = "range"
            /\ UNCHANGED <<stdout, err, runState>>
    /\ UNCHANGED <<observed, rounded, version, loopvarPerIteration, cli, configFile, dataFile, stdin,
                   config, data, dataRead, clientCreated, tableData,
                   metricData, calls, reads, readErr, response, gate>>

\* the Dimensions of a datum: each entry points at the range variable
\* `dimension` (&dimension.Name, &dimension.Value).  With one variable per
\* iteration every entry keeps its own element; with one variable per loop
\* all entries point at the same variable, which holds the last element when
\* the request is sent
DatumDimensions(dims) ==
    [i \in 1..Len(dims) |->
        IF loopvarPerIteration
        THEN [Name |-> dims[i].Name, Value |-> dims[i].Value]
        ELSE [Name |-> dims[Len(dims)].Name, Value |-> dims[Len(dims)].Value]]

\* the types.MetricDatum of a mapped key
MetricDatum(key) ==
    [MetricName |-> Lookup(key).Name,
     Value |-> MetricValue(data[key]),
     Unit |-> "Count",
     Dimensions |-> DatumDimensions(Lookup(key).Dimensions)]

\* the cloudwatch.PutMetricDataInput
PutMetricDataInput(records) ==
    [Namespace |-> config.MetricNamespace, MetricData |-> records]

\* one iteration of the range over data; the README revision sends the
\* batch inside the loop
RangeData ==
    /\ pc = "range"
    /\ \E key \in rangeLeft :
        /\ rangeLeft' = rangeLeft \ {key}
        /\ IF ~Mapped(key)
           THEN UNCHANGED <<metricData, pc>>
           ELSE /\ metricData' = Append(metricData, MetricDatum(key))
                /\ pc' = IF version = "legacy" THEN "put" ELSE "range"
    /\ UNCHANGED <<observed, rounded, version, loopvarPerIteration, cli, configFile, dataFile, stdin,
                   config, data, dataRead, clientCreated, tableData,
                   calls, stdout, reads, readErr, response, gate, err, runState>>

\* an end of the range that returns when no record was assembled
RangeEndSkipEmpty ==
    /\ pc = "range"
    /\ rangeLeft = {}
    /\ IF version = "legacy"
       THEN ReturnFromPublish(NoError, "Published",
                              Append(stdout, SuccessMessage))
       ELSE IF metricData = <<>>
       THEN ReturnFromPublish(NoError, "Assembled", stdout)
       ELSE /\ pc' = IF version = "v1" THEN "put" ELSE "gate"
            /\ runState' = "Assembled"
            /\ UNCHANGED <<stdout, err>>
    /\ UNCHANGED <<observed, rounded, version, loopvarPerIteration, cli, configFile, dataFile, stdin,
                   config, data, dataRead, clientCreated, tableData,
                   rangeLeft, metricData, calls, reads, readErr, response, gate>>

\* the end of the range: the README revision is done, main.go sends the
\* batch, part_000 comes to the confirmation
RangeEnd ==
    /\ pc = "range"
    /\ rangeLeft = {}
    /\ IF version = "legacy"
       THEN ReturnFromPublish(NoError, "Published",
                              Append(stdout, SuccessMessage))
       ELSE /\ pc' = IF version = "v1" THEN "put" ELSE "gate"
            /\ runState' = "Assembled"
            /\ UNCHANGED <<stdout, err>>
    /\ UNCHANGED <<observed, rounded, version, loopvarPerIteration, cli, configFile, dataFile, stdin,
                   config, data, dataRead, clientCreated, tableData,
                   rangeLeft, metricData, calls, reads, readErr, response, gate>>

\* ----------------------------------------------------------------- confirm
\* a line is the sequence of its characters
WhiteSpace == {" ", "\t", "\n", "\r", "\f"}

UpperCase == << "A", "B", "C", "D", "E", "F", "G", "H", "I", "J", "K", "L",
                "M", "N", "O", "P", "Q", "R", "S", "T", "U", "V", "W", "X",
                "Y", "Z" >>
LowerCase == << "a", "b", "c", "d", "e", "f", "g", "h", "i", "j", "k", "l",
                "m", "n", "o", "p", "q", "r", "s", "t", "u", "v", "w", "x",
                "y", "z" >>

\* the response compared as typed
ToLowerIdentity(str) == str

\* strings.ToLower
ToLower(str) ==
    [i \in 1..Len(str) |->
        IF \E u \in 1..Len(UpperCase) : UpperCase[u] = str[i]
        THEN LowerCase[CHOOSE u \in 1..Len(UpperCase) : UpperCase[u] = str[i]]
        ELSE str[i]]

RECURSIVE TrimLeft(_)
TrimLeft(str) ==
    IF str # <<>> /\ Head(str) \in WhiteSpace THEN TrimLeft(Tail(str))
    ELSE str

RECURSIVE TrimRight(_)
TrimRight(str) ==
    IF str # <<>> /\ str[Len(str)] \in WhiteSpace
    THEN TrimRight(SubSeq(str, 1, Len(str) - 1))
    ELSE str

\* strings.TrimSpace
TrimSpace(str) == TrimRight(TrimLeft(str))

\* the switch of confirm on the normalised response
Decision(str) ==
    LET r == ToLower(TrimSpace(str))
    IN  CASE r = <<"y">> \/ r = <<"y", "e", "s">> -> "yes"
          [] r = <<"n">> \/ r = <<"n", "o">> -> "no"
          [] OTHER -> "invalid"

\* the flag not read: confirm is always called
NonInteractiveIgnored == FALSE

\* *cliNoninteractive, the left operand of ||: confirm is not called when
\* it is true
NonInteractive == cli.noninteractive

\* the condition of the if at the end of publishMetrics, up to the call of
\* confirm
ConfirmationGate ==
    /\ pc = "gate"
    /\ IF NonInteractive
       THEN /\ gate' = "Approved"
            /\ runState' = "Approved"
            /\ pc' = "put"
       ELSE /\ gate' = "AwaitingInput"
            /\ runState' = "AwaitingConfirmation"
            /\ pc' = "prompt"
    /\ UNCHANGED <<observed, rounded, version, loopvarPerIteration, cli, configFile, dataFile, stdin,
                   config, data, dataRead, clientCreated, tableData,
                   rangeLeft, metricData, calls, stdout, reads, readErr, response,
                   err>>

PromptMessage == "Do you want to proceed? [y/n]: "

\* fmt.Printf of the prompt, at the head of confirm's loop
Prompt ==
    /\ pc = "prompt"
    /\ stdout' = Append(stdout, PromptMessage)
    /\ pc' = "read"
    /\ UNCHANGED <<observed, rounded, version, loopvarPerIteration, cli, configFile, dataFile, stdin,
                   config, data, dataRead, clientCreated, tableData,
                   rangeLeft, metricData, calls, reads, readErr, response, gate, err,
                   runState>>

\* a confirm that returns true on a failed read
ReadFailureApproves == "Approved"

\* what confirm returns when ReadString fails
ReadFailureAnswer == "Declined"

\* reader.ReadString('\n'): a line with its newline, or an error (the stream
\* is closed, at its end, or fails); confirm prints the error and returns
\* false
ReadString ==
    /\ pc = "read"
    /\ reads < MaxReads
    /\ reads' = reads + 1
    /\ \/ \E line \in stdin :
            /\ response' = Append(line, "\n")
            /\ pc' = "switch"
            /\ UNCHANGED <<stdout, readErr, gate, runState>>
       \/ /\ readErr' = "EOF"
          /\ stdout' = Append(stdout, "Error reading input:")
          /\ gate' = ReadFailureAnswer
          /\ runState' = ReadFailureAnswer
          /\ pc' = IF ReadFailureAnswer = "Approved" THEN "put" ELSE "cancel"
          /\ UNCHANGED response
    /\ UNCHANGED <<observed, rounded, version, loopvarPerIteration, cli, configFile, dataFile, stdin,
                   config, data, dataRead, clientCreated, tableData,
                   rangeLeft, metricData, calls, err>>

\* the switch of confirm: return true, return false, or print the complaint
\* and go round the loop
Switch ==
    /\ pc = "switch"
    /\ response' = NoLine
    /\ LET d == Decision(response)
       IN  CASE d = "yes" ->
                    /\ gate' = "Approved"
                    /\ runState' = "Approved"
                    /\ pc' = "put"
                    /\ UNCHANGED stdout
             [] d = "no" ->
                    /\ gate' = "Declined"
                    /\ runState' = "Declined"
                    /\ pc' = "cancel"
                    /\ UNCHANGED stdout
             [] OTHER ->
                    /\ stdout' = Append(stdout,
                                   "Invalid input. Please enter 'y' or 'n'.")
                    /\ pc' = "prompt"
                    /\ UNCHANGED <<gate, runState>>
    /\ UNCHANGED <<observed, rounded, version, loopvarPerIteration, cli, configFile, dataFile, stdin,
                   config, data, dataRead, clientCreated, tableData,
                   rangeLeft, metricData, calls, reads, readErr, err>>

\* the else branch: confirm returned false
Cancel ==
    /\ pc = "cancel"
    /\ ReturnFromPublish(NoError, "Cancelled",
                         Append(stdout, "Operation cancelled."))
    /\ UNCHANGED <<observed, rounded, version, loopvarPerIteration, cli, configFile, dataFile, stdin,
                   config, data, dataRead, clientCreated, tableData,
                   rangeLeft, metricData, calls, reads, readErr, response, gate>>

\* what publishMetrics does with the error of PutMetricData
PutError == "PutMetricData error"
\* the error of the call dropped
PutErrorSwallowed == NoError
AfterPutError == PutError

\* client.PutMetricData: the service answers, or the call fails.  main.go
\* returns the outcome, the README revision goes on with the range,
\* part_000 prints the success message
PutMetricData ==
    /\ pc = "put"
    /\ \E ok \in BOOLEAN :
        /\ calls' = Append(calls,
                       [Input |-> PutMetricDataInput(metricData),
                        Error |-> IF ok THEN NoError ELSE PutError])
        /\ IF ~ok /\ AfterPutError # NoError
           THEN ReturnFromPublish(AfterPutError, "PublishFailed", stdout)
           ELSE IF version = "legacy"
           THEN /\ pc' = "range"
                /\ UNCHANGED <<stdout, err, runState>>
           ELSE ReturnFromPublish(NoError, "Published",
                                  IF version = "v1" THEN stdout
                                  ELSE Append(stdout, SuccessMessage))
    /\ UNCHANGED <<observed, rounded, version, loopvarPerIteration, cli, configFile, dataFile, stdin,
                   config, data, dataRead, clientCreated, tableData,
                   rangeLeft, metricData, reads, readErr, response, gate>>

Next ==
    \/ LoadConfig
    \/ ResolveSettings
    \/ LoadData
    \/ LoadAWSConfig
    \/ PrintTable
    \/ CheckSkipPublish
    \/ RangeData
    \/ RangeEnd
    \/ ConfirmationGate
    \/ Prompt
    \/ ReadString
    \/ Switch
    \/ Cancel
    \/ PutMetricData

Spec == Init /\ [][Next]_vars

SpecData == InitData /\ [][Next]_vars

\* the statements of the program itself: every step but the read, which
\* waits for the terminal
ProgramStep ==
    \/ LoadConfig
    \/ ResolveSettings
    \/ LoadData
    \/ LoadAWSConfig
    \/ PrintTable
    \/ CheckSkipPublish
    \/ RangeData
    \/ RangeEnd
    \/ ConfirmationGate
    \/ Prompt
    \/ Switch
    \/ Cancel
    \/ PutMetricData

\* the runs whose region and profile are settled by the command line, over
\* every version, flag and key set, with a user who may type a yes, a no and
\* two lines that are neither
InitLive ==
    InitOf({[Region |-> "", Profile |-> ""]},
           {[region |-> "us-east-1", profile |-> "default"]},
           {<<>>}, {125},
           { <<"Y">>, <<"\t", "N", "o", "\r">>, <<"m", "a", "y", "b", "e">>,
             <<"y", "e", "s", "!">> })

\* the program runs on whenever a statement other than the read is next
SpecLive == InitLive /\ [][Next]_vars /\ WF_vars(ProgramStep)

\* ----------------------------------------------------------------- float64
\* math.Round(value*100)/100 as the program computes it, on float64.
\* A natural number is the sequence of its digits in base Limb, the least
\* significant first, without a leading zero digit; <<>> is zero.
Limb == 32768

RECURSIVE Strip(_)
Strip(n) ==
    IF n # <<>> /\ n[Len(n)] = 0 THEN Strip(SubSeq(n, 1, Len(n) - 1)) ELSE n

\* the digits of n * k + carry
RECURSIVE MulCarry(_, _, _)
MulCarry(n, k, carry) ==
    IF n = <<>>
    THEN IF carry = 0 THEN <<>>
         ELSE <<carry % Limb>> \o MulCarry(<<>>, k, carry \div Limb)
    ELSE LET t == Head(n) * k + carry
         IN  <<t % Limb>> \o MulCarry(Tail(n), k, t \div Limb)

NatMul(n, k) == Strip(MulCarry(n, k, 0))
NatAdd(n, k) == Strip(MulCarry(n, 1, k))

\* the quotient and the remainder of rem * Limb^Len(n) + n by d
RECURSIVE DivRem(_, _, _)
DivRem(n, d, rem) ==
    IF n = <<>> THEN [q |-> <<>>, r |-> rem]
    ELSE LET t == rem * Limb + n[Len(n)]
             rest == DivRem(SubSeq(n, 1, Len(n) - 1), d, t % d)
         IN  [q |-> Append(rest.q, t \div d), r |-> rest.r]

Half(n) == Strip(DivRem(n, 2, 0).q)
Odd(n) == n # <<>> /\ n[1] % 2 = 1

\* the number of bits of n
DigitBits == 15
BitLen(n) ==
    IF n = <<>> THEN 0
    ELSE DigitBits * (Len(n) - 1)
         + CHOOSE b \in 1..DigitBits :
                2^(b - 1) <= n[Len(n)] /\ n[Len(n)] < 2^b

\* n * 2^u
ShiftLeft(n, u) ==
    IF n = <<>> THEN <<>>
    ELSE [i \in 1..(u \div DigitBits) |-> 0] \o NatMul(n, 2^(u % DigitBits))

\* n with its s lowest bits dropped, and whether one of them was set
ShiftRight(n, s) ==
    LET drop == s \div DigitBits
        kept == IF drop >= Len(n) THEN <<>> ELSE SubSeq(n, drop + 1, Len(n))
        d == DivRem(kept, 2^(s % DigitBits), 0)
    IN  [q |-> Strip(d.q),
         sticky |-> d.r # 0 \/ \E i \in 1..Len(n) : i <= drop /\ n[i] # 0]

\* a float64 has 53 significant bits
MantissaBits == 53

\* A float64 is [neg, m, e]: the value of sign neg and magnitude m * 2^e,
\* with 2^52 <= m < 2^53, or m zero.  The exponents of the values below are
\* far from the ends of the range: no subnormal, no overflow.
\* ToFloat64 is the float64 nearest to (n + f) * 2^e, ties to even, where f
\* is 0 when sticky is false and some 0 < f < 1 otherwise; a value with a
\* sticky part comes with n of more than 53 bits.
ToFloat64(neg, n, e, sticky) ==
    LET len == BitLen(n)
    IN  IF n = <<>> THEN [neg |-> neg, m |-> <<>>, e |-> 0]
        ELSE IF len <= MantissaBits
        THEN [neg |-> neg, m |-> ShiftLeft(n, MantissaBits - len),
              e |-> e - (MantissaBits - len)]
        ELSE LET s == len - (MantissaBits + 1)
                 sh == ShiftRight(n, s)
                 up == Odd(sh.q)
                        /\ (sticky \/ sh.sticky \/ Odd(Half(sh.q)))
                 m == IF up THEN NatAdd(Half(sh.q), 1) ELSE Half(sh.q)
             IN  IF BitLen(m) > MantissaBits
                 THEN [neg |-> neg, m |-> Half(m), e |-> e + s + 2]
                 ELSE [neg |-> neg, m |-> m, e |-> e + s + 1]

\* x * k for a small whole k: the exact product, rounded once
Mul(x, k) == ToFloat64(x.neg, NatMul(x.m, k), x.e, FALSE)

\* x / k for a small whole k: the quotient to 8 more bits and whether
\* anything remained, rounded once
Quo(x, k) ==
    LET d == DivRem(ShiftLeft(x.m, 8), k, 0)
    IN  ToFloat64(x.neg, Strip(d.q), x.e - 8, d.r # 0)

\* math.Round: the nearest whole number, halves away from zero: the bits
\* below the half dropped, then the half added
MathRound(x) ==
    IF x.e >= 0 THEN x
    ELSE LET q == ShiftRight(x.m, (-x.e) - 1).q
         IN  ToFloat64(x.neg,
                       IF Odd(q) THEN NatAdd(Half(q), 1) ELSE Half(q),
                       0, FALSE)

\* 100 in part_000, 10 in the README revision
Scale == IF version = "legacy" THEN 10 ELSE 100

\* math.Round(value*100)/100
RoundFloat64(value) == Quo(MathRound(Mul(value, Scale)), Scale)

\* the observed values: 43061818318960.016 (5511912744826882 * 2^-7), its
\* successors among the float64, and their opposites
BaseMantissa == <<14338, 25184, 21560, 156>>
BaseExponent == 0 - 7
ObservedValues ==
    { [neg |-> s, m |-> NatAdd(BaseMantissa, i), e |-> BaseExponent] :
        s \in BOOLEAN, i \in 0..MaxOffset }

\* the rounding alone: no run is under way
InitRound ==
    /\ version \in {"legacy", "current"}
    /\ observed \in ObservedValues
    /\ rounded = <<>>
    /\ loopvarPerIteration = TRUE
    /\ cli = [region |-> "", profile |-> "", skipPublish |-> FALSE,
              noninteractive |-> FALSE]
    /\ configFile = NoFile
    /\ dataFile = NoFile
    /\ stdin = {}
    /\ pc = "round"
    /\ config = EmptyConfig
    /\ data = <<>>
    /\ dataRead = FALSE
    /\ clientCreated = FALSE
    /\ tableData = <<>>
    /\ rangeLeft = {}
    /\ metricData = <<>>
    /\ calls = <<>>
    /\ stdout = <<>>
    /\ reads = 0
    /\ response = NoLine
    /\ readErr = NoError
    /\ gate = "NotEntered"
    /\ err = NoError
    /\ runState = "Start"

\* the rounding applied to the observed value
RoundValue ==
    /\ pc = "round"
    /\ rounded = <<>>
    /\ rounded' = <<RoundFloat64(observed)>>
    /\ UNCHANGED <<version, loopvarPerIteration, cli, configFile, dataFile,
                   stdin, pc, config, data, dataRead, clientCreated,
                   tableData, rangeLeft, metricData, calls, stdout, reads,
                   response, readErr, gate, err, runState, observed>>

\* the rounding applied to its own result
RoundAgain ==
    /\ pc = "round"
    /\ Len(rounded) = 1
    /\ rounded' = Append(rounded, RoundFloat64(rounded[1]))
    /\ UNCHANGED <<version, loopvarPerIteration, cli, configFile, dataFile,
                   stdin, pc, config, data, dataRead, clientCreated,
                   tableData, rangeLeft, metricData, calls, stdout, reads,
                   response, readErr, gate, err, runState, observed>>

NextRound ==
    \/ RoundValue
    \/ RoundAgain

SpecRound == InitRound /\ [][NextRound]_vars

\* ------------------------------------------------------------- properties
Range(seq) == {seq[i] : i \in 1..Len(seq)}

Count(seq, x) == Cardinality({i \in 1..Len(seq) : seq[i] = x})

\* the run was given a skip-publish setting, in config.yml or as the flag
SkipRequested ==
    /\ configFile # NoFile
    /\ configFile.SkipPublish \/ cli.skipPublish

\* publishMetrics has been called
PublishCalled == clientCreated

\* C1: when skip-publish is set in the configuration or by the flag, no
\* PutMetricData call is made, whatever the non-interactive flag and the
\* input stream are, and a run that reaches publishMetrics ends skipped,
\* without error, with the preview rendered.
C1_SkipNeverPublishes ==
    SkipRequested =>
        /\ calls = <<>>
        /\ (pc = "done" /\ PublishCalled) =>
                /\ tableData # <<>>
                /\ PreviewMessage \in Range(stdout)
                /\ runState = "SkippedByConfig"
                /\ err = NoError

\* a run with the flag --skip-publish (not the configuration) and
\* --non-interactive that ended skipped after the preview
C1_Witness ==
    /\ SkipRequested
    /\ ~configFile.SkipPublish
    /\ cli.noninteractive
    /\ pc = "done"
    /\ runState = "SkippedByConfig"
    /\ tableData # <<>>
    /\ DOMAIN data # {}

\* the keys of the data document that the configuration maps
CommonKeys ==
    IF configFile = NoFile \/ dataFile = NoFile THEN {}
    ELSE DOMAIN dataFile \cap DOMAIN configFile.MetricMappings

\* the range over data has ended in a run that publishes
AssemblyDone ==
    /\ pc \in {"range", "put", "gate", "prompt", "read", "switch", "cancel",
               "done"}
    /\ rangeLeft = {}
    /\ runState \notin {"Aborted", "SkippedByConfig"}

\* C2: once the range over the data has ended, the batch holds exactly one
\* record for each key that is both in the data and in the mappings and no
\* other record (none for a key without a mapping); a key without a mapping
\* is no error: from the call of publishMetrics on, the only error a run
\* returns is the one of the remote call.
C2_OneRecordPerMappedKey ==
    /\ AssemblyDone =>
        /\ Len(metricData) = Cardinality(CommonKeys)
        /\ \A k \in Keys :
            Cardinality({i \in 1..Len(metricData) :
                            metricData[i].MetricName = RemoteNames[k]})
                = IF k \in CommonKeys THEN 1 ELSE 0
    /\ (PublishCalled /\ err # NoError) =>
            /\ calls # <<>>
            /\ err = calls[Len(calls)].Error

\* a finished run whose data held a mapped key and a key without a mapping
C2_Witness ==
    /\ AssemblyDone
    /\ pc = "done"
    /\ err = NoError
    /\ CommonKeys # {}
    /\ DOMAIN dataFile \ CommonKeys # {}
    /\ Len(metricData) = 1

\* the run asked for no prompt and for publishing
NonInteractivePublish ==
    /\ configFile # NoFile
    /\ cli.noninteractive
    /\ ~configFile.SkipPublish
    /\ ~cli.skipPublish

\* C3: with --non-interactive and skip-publish off, no prompt is printed and
\* the input stream is never read; the gate is approved and a run that
\* reaches publishMetrics makes the remote call.
C3_NonInteractiveApproves ==
    NonInteractivePublish =>
        /\ PromptMessage \notin Range(stdout)
        /\ reads = 0
        /\ response = NoLine
        /\ gate \in {"NotEntered", "Approved"}
        /\ (pc = "done" /\ PublishCalled) =>
                /\ gate = "Approved"
                /\ Len(calls) = 1

\* a non-interactive run that made the call without a read
C3_Witness ==
    /\ NonInteractivePublish
    /\ pc = "done"
    /\ gate = "Approved"
    /\ Len(calls) = 1
    /\ reads = 0
    /\ stdout[Len(stdout)] = SuccessMessage

\* the two spellings of a letter of the accepted tokens
Spellings(letter) ==
    CASE letter = "y" -> {"y", "Y"}
      [] letter = "e" -> {"e", "E"}
      [] letter = "s" -> {"s", "S"}
      [] letter = "n" -> {"n", "N"}
      [] letter = "o" -> {"o", "O"}

\* the line is the token in some mix of cases, with only blanks, tabs,
\* returns, form feeds and newlines before it and after it
Spells(line, token) ==
    \E lead \in 0..Len(line) :
        /\ lead + Len(token) <= Len(line)
        /\ \A i \in 1..Len(line) :
            IF i > lead /\ i <= lead + Len(token)
            THEN line[i] \in Spellings(token[i - lead])
            ELSE line[i] \in {" ", "\t", "\r", "\f", "\n"}

SaysYes(line) == Spells(line, <<"y">>) \/ Spells(line, <<"y", "e", "s">>)
SaysNo(line) == Spells(line, <<"n">>) \/ Spells(line, <<"n", "o">>)

\* C4: for every line confirm reads: if it is y or yes up to case and
\* surrounding whitespace, the gate becomes approved and the call is next;
\* if it is n or no, the gate becomes declined and the run is cancelled;
\* any other line leaves the gate awaiting input, prints the complaint and
\* leads to another prompt, however many lines were read before.
C4_ConfirmTokens ==
    [][ pc = "switch" =>
            /\ SaysYes(response) => gate' = "Approved" /\ pc' = "put"
            /\ SaysNo(response) => gate' = "Declined" /\ pc' = "cancel"
            /\ (~SaysYes(response) /\ ~SaysNo(response)) =>
                    /\ gate = "AwaitingInput"
                    /\ gate' = "AwaitingInput"
                    /\ pc' = "prompt"
                    /\ Len(stdout') = Len(stdout) + 1 ]_vars

\* the gate approved on the last line the stream may supply, every line
\* before it having led to another prompt
C4_Witness ==
    /\ gate = "Approved"
    /\ reads = MaxReads
    /\ Count(stdout, PromptMessage) = MaxReads
    /\ readErr = NoError

\* C5: when a read of the input stream fails, the gate is declined, the
\* failure is printed, no remote call is made, and the run ends cancelled
\* with publishMetrics returning nil.
C5_ReadFailureDeclines ==
    readErr # NoError =>
        /\ gate = "Declined"
        /\ "Error reading input:" \in Range(stdout)
        /\ calls = <<>>
        /\ pc \in {"cancel", "done"}
        /\ pc = "done" =>
                /\ runState = "Cancelled"
                /\ err = NoError
                /\ stdout[Len(stdout)] = "Operation cancelled."

\* a run cancelled by a failed read that followed an invalid line
C5_Witness ==
    /\ readErr # NoError
    /\ pc = "done"
    /\ runState = "Cancelled"
    /\ reads = MaxReads

\* C6: when a PutMetricData call returned an error, the run has ended in
\* PublishFailed, run returns that error, and the success message is not on
\* the output.
C6_PutErrorFailsRun ==
    \A i \in 1..Len(calls) :
        calls[i].Error # NoError =>
            /\ pc = "done"
            /\ runState = "PublishFailed"
            /\ err = calls[i].Error
            /\ SuccessMessage \notin Range(stdout)

\* a failed call, after the user approved
C6_Witness ==
    /\ calls # <<>>
    /\ calls[Len(calls)].Error # NoError
    /\ runState = "PublishFailed"
    /\ reads > 0

\* C7: at most one PutMetricData call is made in a run, and it carries all
\* the records of the run (one per key that is in the data and mapped) in
\* one batch under the configured namespace.
C7_SingleBatch ==
    /\ Len(calls) <= 1
    /\ \A i \in 1..Len(calls) :
        /\ calls[i].Input.Namespace = configFile.MetricNamespace
        /\ Len(calls[i].Input.MetricData) = Cardinality(CommonKeys)
        /\ calls[i].Input.MetricData = metricData

\* C8: whenever a confirmation prompt has been printed, the input stream has
\* been read, the gate has been entered or a remote call has been made, the
\* preview was rendered before; and it is rendered first in every run that
\* reaches publishMetrics, with skip-publish or non-interactive set or not.
C8_PreviewFirst ==
    /\ ( \/ PromptMessage \in Range(stdout)
         \/ reads > 0
         \/ gate # "NotEntered"
         \/ calls # <<>>
         \/ metricData # <<>>
         \/ (pc = "done" /\ PublishCalled) )
       => /\ tableData # <<>>
          /\ stdout # <<>>
          /\ stdout[1] = PreviewMessage
    /\ tableData # <<>> => PublishCalled

\* an interactive run that read the stream and made the call, its preview
\* holding a row
C8_Witness ==
    /\ Len(tableData) > 1
    /\ reads > 0
    /\ calls # <<>>
    /\ stdout[1] = PreviewMessage
    /\ stdout[2] = PromptMessage

\* C9: when skip-publish is set the gate is never entered: no prompt is
\* printed, the input stream is not read, nothing is assembled, and a run
\* that reaches publishMetrics ends skipped, the skipped message coming
\* right after the preview and, in the revisions with a preview table,
\* being the last output.
C9_SkipBypassesGate ==
    SkipRequested =>
        /\ gate = "NotEntered"
        /\ PromptMessage \notin Range(stdout)
        /\ reads = 0
        /\ readErr = NoError
        /\ metricData = <<>>
        /\ pc \notin {"range", "gate", "prompt", "read", "switch", "cancel",
                      "put"}
        /\ (pc = "done" /\ PublishCalled) =>
                /\ runState = "SkippedByConfig"
                /\ Len(stdout) >= 2
                /\ stdout[1] = PreviewMessage
                /\ stdout[2] = SkippedMessage
                /\ version # "v1" => Len(stdout) = 2

\* an interactive run of part_000 that ended skipped by the configuration
C9_Witness ==
    /\ SkipRequested
    /\ configFile.SkipPublish
    /\ version = "current"
    /\ ~cli.noninteractive
    /\ pc = "done"
    /\ stdout = <<PreviewMessage, SkippedMessage>>
    /\ DOMAIN data # {}

\* C10: the dimensions of every record sent are the (name, value) pairs of
\* the mapping of its key, in the configured order and number, each with its
\* own name and value.
C10_DimensionsCopied ==
    \A i \in 1..Len(calls) :
        \A j \in 1..Len(calls[i].Input.MetricData) :
            \A k \in CommonKeys :
                calls[i].Input.MetricData[j].MetricName = RemoteNames[k] =>
                    calls[i].Input.MetricData[j].Dimensions
                        = configFile.MetricMappings[k].Dimensions

\* the name printTable shows for a mapped key (main.go prints the key)
ShownName(k) == IF version = "v1" THEN k ELSE RemoteNames[k]

\* the rows of the preview, without the header
PreviewRows == IF tableData = <<>> THEN <<>> ELSE Tail(tableData)

\* C11: for every key that yields a record, the preview shows for it the
\* value the record carries: there is a row with the name of the key whose
\* value column is the print of the record's rounded value.
C11_PreviewShowsSentValue ==
    \A k \in CommonKeys :
        \A j \in 1..Len(metricData) :
            metricData[j].MetricName = RemoteNames[k] =>
                /\ \E i \in 1..Len(PreviewRows) :
                        PreviewRows[i][1] = ShownName(k)
                /\ \A i \in 1..Len(PreviewRows) :
                        PreviewRows[i][1] = ShownName(k) =>
                            PreviewRows[i][2] = Sprint(metricData[j].Value)

\* a call of part_000 that sent 0.13 for the observed 0.125, shown as "0.13"
C11_Witness ==
    /\ version = "current"
    /\ calls # <<>>
    /\ \E k \in CommonKeys :
        /\ dataFile[k] = 125
        /\ \E j \in 1..Len(calls[1].Input.MetricData) :
            /\ calls[1].Input.MetricData[j].MetricName = RemoteNames[k]
            /\ calls[1].Input.MetricData[j].Value = 130
        /\ \E i \in 1..Len(PreviewRows) :
            /\ PreviewRows[i][1] = RemoteNames[k]
            /\ PreviewRows[i][2] = "0.13"

\* C12: in part_000 the preview has one data row for a key exactly when the key yields
\* a record: as many rows as there are keys both in the data and in the
\* mappings, each with the name of such a key.
C12_PreviewRowsAreRecords ==
    version = "current" /\ tableData # <<>> =>
        /\ Len(PreviewRows) = Cardinality(CommonKeys)
        /\ \A i \in 1..Len(PreviewRows) :
            \E k \in CommonKeys : PreviewRows[i][1] = ShownName(k)

\* the position of the row of key k in the preview, of its record in a batch
RowOf(k) == CHOOSE i \in 1..Len(PreviewRows) : PreviewRows[i][1] = ShownName(k)
RecordOf(batch, k) ==
    CHOOSE j \in 1..Len(batch) : batch[j].MetricName = RemoteNames[k]

\* C13: in part_000 the records of a batch sent are in the order of the rows of the
\* preview: of two keys with a record, the one whose row comes first has its
\* record first.
C13_SameOrder ==
    version = "current" =>
    \A c \in 1..Len(calls) :
        LET batch == calls[c].Input.MetricData
            sent == {k \in CommonKeys :
                        \E j \in 1..Len(batch) :
                            batch[j].MetricName = RemoteNames[k]}
        IN  \A k1, k2 \in sent :
                RowOf(k1) < RowOf(k2) => RecordOf(batch, k1) < RecordOf(batch, k2)

\* a run of part_000 or of the README revision whose configuration was read
\* and names no region, or no profile, in the file nor on the command line
RegionMissing ==
    /\ version # "v1" /\ configFile # NoFile
    /\ configFile.Region = "" /\ cli.region = ""
ProfileMissing ==
    /\ version # "v1" /\ configFile # NoFile
    /\ configFile.Profile = "" /\ cli.profile = ""

\* C14: when the region or the profile is empty in both the configuration
\* and the command line, run returns a configuration error, and it does so
\* before the data is read, before the preview and before a client is
\* created or called.
C14_MissingSettingAborts ==
    RegionMissing \/ ProfileMissing =>
        /\ ~dataRead /\ data = <<>> /\ tableData = <<>> /\ stdout = <<>>
        /\ ~clientCreated /\ calls = <<>>
        /\ pc \in {"loadConfig", "resolve", "done"}
        /\ pc = "done" =>
            /\ runState = "Aborted"
            /\ err = IF RegionMissing
                     THEN "AWS_REGION environment variable not set"
                     ELSE "AWS_PROFILE environment variable not set"

\* a run that ended on the missing profile, the region being given
C14_Witness ==
    /\ ProfileMissing /\ ~RegionMissing
    /\ pc = "done" /\ err = "AWS_PROFILE environment variable not set"

\* the settings were resolved and the run went on
SettingsResolved == pc \notin {"loadConfig", "resolve"} /\ runState # "Aborted"

\* C15: the effective region and profile are the configured value when it is
\* not empty and the value of the command line otherwise; skip-publish is in
\* effect exactly when the configuration or the flag says so.
C15_EffectiveSettings ==
    SettingsResolved =>
        /\ config.Region =
            IF configFile.Region # "" THEN configFile.Region ELSE cli.region
        /\ config.Profile =
            IF configFile.Profile # "" THEN configFile.Profile ELSE cli.profile
        /\ config.SkipPublish = (configFile.SkipPublish \/ cli.skipPublish)

\* a run with the region of the command line, the profile of the file and
\* skip-publish set by the file alone
C15_Witness ==
    /\ SettingsResolved /\ pc = "done"
    /\ configFile.Region = "" /\ config.Region = cli.region
    /\ configFile.Profile # "" /\ cli.profile # ""
    /\ config.Profile = configFile.Profile
    /\ configFile.SkipPublish /\ ~cli.skipPublish /\ config.SkipPublish

\* C19: in main.go and part_000 the success message is printed only after a
\* call of PutMetricData that returned no error, and never in a run that was
\* skipped or cancelled.
C19_SuccessOnlyAfterPublish ==
    version # "legacy" /\ SuccessMessage \in Range(stdout) =>
        /\ calls # <<>>
        /\ calls[Len(calls)].Error = NoError
        /\ runState \notin {"SkippedByConfig", "Cancelled"}

\* a finished run of part_000 that entered publishMetrics and did not skip
FinishedUnskipped ==
    /\ version = "current" /\ pc = "done"
    /\ tableData # <<>> /\ ~config.SkipPublish

\* C20: in part_000, when skip-publish is off, the confirmation is reached
\* and, once approved (at once when non-interactive), PutMetricData is called
\* once with the batch, whatever the number of records, none included.
C20_EmptyBatchStillSent ==
    FinishedUnskipped =>
        /\ gate \in {"Approved", "Declined"}
        /\ cli.noninteractive => gate = "Approved"
        /\ ~cli.noninteractive => PromptMessage \in Range(stdout)
        /\ gate = "Approved" =>
            /\ Len(calls) = 1
            /\ calls[1].Input.MetricData = metricData
        /\ gate = "Declined" => calls = <<>>

\* a prompted and approved run that sent a batch of no record
C20_Witness ==
    /\ FinishedUnskipped /\ ~cli.noninteractive
    /\ data # <<>> /\ metricData = <<>>
    /\ PromptMessage \in Range(stdout)
    /\ Len(calls) = 1 /\ calls[1].Input.MetricData = <<>>

\* C18: printTable calls no remote service and leaves the data and the
\* configuration as they were, the mapping table included when it is read
\* for a key that has no mapping; for an empty data set it renders the
\* header alone and returns no error.
C18_PrintTableFrame ==
    [][pc = "printTable" =>
        /\ calls' = calls /\ clientCreated' = clientCreated
        /\ data' = data /\ config' = config
        /\ err' = err /\ pc' = "checkSkip"
        /\ Len(tableData') = 1 + Cardinality(DOMAIN data)
        /\ tableData'[1] = TableHeader
        /\ data = <<>> => tableData' = <<TableHeader>>]_vars

\* the table of part_000 rendered for data with a key that has no mapping
C18_Witness ==
    /\ version = "current" /\ pc = "checkSkip"
    /\ Len(tableData) = 1 + Cardinality(DOMAIN data)
    /\ \E k \in DOMAIN data : k \notin DOMAIN config.MetricMappings

TerminalStates == {"SkippedByConfig", "Published", "PublishFailed", "Cancelled"}

\* the run is over in one of the four terminal states
Terminated == pc = "done" /\ runState \in TerminalStates

\* the preview was rendered
Previewed == tableData # <<>>

\* the input stream has supplied an accepted token, or was found closed
InputDecides ==
    \/ pc = "switch" /\ (SaysYes(response) \/ SaysNo(response))
    \/ readErr # NoError

\* C17: a run that rendered the preview and needs no input (skip-publish, the
\* non-interactive flag, or a revision without the prompt), or whose input
\* supplies an accepted token or is closed, terminates, and a previewed run
\* that is over is in one of SkippedByConfig, Published, PublishFailed,
\* Cancelled: without error in the first, second and fourth, with the error
\* of the remote call in the third; in part_000 Published and PublishFailed
\* come only after the gate was approved.
C17_PreviewedRunTerminates ==
    /\ [](Previewed /\ pc = "done" =>
            /\ runState \in TerminalStates
            /\ runState \in {"SkippedByConfig", "Published", "Cancelled"}
                    => err = NoError
            /\ runState = "PublishFailed" =>
                    /\ err = PutError
                    /\ calls # <<>> /\ calls[Len(calls)].Error = PutError
            /\ (version = "current"
                    /\ runState \in {"Published", "PublishFailed"})
                    => gate = "Approved")
    /\ (Previewed /\ (version # "current" \/ config.SkipPublish
                        \/ cli.noninteractive)) ~> Terminated
    /\ InputDecides ~> Terminated

\* a run that was over after a line that was not accepted and one that was
C17_Witness ==
    /\ version = "current" /\ Terminated /\ reads >= 2
    /\ readErr = NoError /\ runState \in {"Published", "Cancelled"}

\* C16: rounding is idempotent: rounding a rounded value gives that value
\* again, with the two decimals of part_000 and with the one decimal of the
\* README revision.
C16_RoundingIdempotent ==
    Len(rounded) = 2 => rounded[2] = rounded[1]

====
